---- MODULE Spec2Model ----
(***************************************************************************)
(* Rigs of Rods, source/main/utils/GenericFileFormat.cpp:                  *)
(* the tokenizer (DocumentParser driven by                                 *)
(* GenericDocument::LoadFromDataStream) and the serializer                 *)
(* (GenericDocument::SaveToDataStream).                                    *)
(*                                                                         *)
(* A character is a one-character string; the terminator '\0' is NUL.      *)
(* A token is [type, data].  The float payload of a NUMBER token is kept   *)
(* as an integer count of millionths (Scale), the resolution "%f" prints;  *)
(* the payload of every other token is kept as the plain integer.          *)
(***************************************************************************)
EXTENDS Integers, Sequences, FiniteSets, TLC

\* ------------------------------------------------------------------ bounds

\* Longest input enumerated over Alphabet (the listed Examples are longer).
MaxLen == 3

\* Longest token list of a document built by a client rather than loaded.
MaxToks == 3

\* ------------------------------------------------------------- characters

NUL == "NUL"
CR  == "\r"
LF  == "\n"
TAB == "\t"
SPC == " "
QUOTE == "\""

Digits == {"0", "1", "2", "3", "4", "5", "6", "7", "8", "9"}

Letters ==
    {"a", "b", "c", "d", "e", "f", "g", "h", "i", "j", "k", "l", "m",
     "n", "o", "p", "q", "r", "s", "t", "u", "v", "w", "x", "y", "z",
     "A", "B", "C", "D", "E", "F", "G", "H", "I", "J", "K", "L", "M",
     "N", "O", "P", "Q", "R", "S", "T", "U", "V", "W", "X", "Y", "Z"}

isdigit(c) == c \in Digits
isalpha(c) == c \in Letters
isalnum(c) == c \in Digits \cup Letters

\* ---------------------------------------------------------------- options

OPTION_ALLOW_NAKED_STRINGS   == "OPTION_ALLOW_NAKED_STRINGS"
OPTION_ALLOW_SLASH_COMMENTS  == "OPTION_ALLOW_SLASH_COMMENTS"
OPTION_FIRST_LINE_IS_TITLE   == "OPTION_FIRST_LINE_IS_TITLE"

AllOptions ==
    {OPTION_ALLOW_NAKED_STRINGS, OPTION_ALLOW_SLASH_COMMENTS, OPTION_FIRST_LINE_IS_TITLE}

\* ------------------------------------------------------------ token kinds

TokenType == {"LINEBREAK", "COMMENT", "STRING", "NUMBER", "BOOL", "KEYWORD"}

PartialToken ==
    {"NONE", "COMMENT_SEMICOLON", "COMMENT_SLASH", "STRING_QUOTED", "STRING_NAKED",
     "TITLE_STRING", "NUMBER", "NUMBER_DOT", "KEYWORD", "BOOL_TRUE", "BOOL_FALSE",
     "GARBAGE"}

Token(type, data) == [type |-> type, data |-> data]

\* ------------------------------------------------------- number conversion

\* Millionths per unit: "%f" prints six decimals.
Scale == 1000000

DigitVal(c) ==
    CASE c = "0" -> 0 [] c = "1" -> 1 [] c = "2" -> 2 [] c = "3" -> 3 [] c = "4" -> 4
      [] c = "5" -> 5 [] c = "6" -> 6 [] c = "7" -> 7 [] c = "8" -> 8 [] c = "9" -> 9

DigitChar(d) ==
    CASE d = 0 -> "0" [] d = 1 -> "1" [] d = 2 -> "2" [] d = 3 -> "3" [] d = 4 -> "4"
      [] d = 5 -> "5" [] d = 6 -> "6" [] d = 7 -> "7" [] d = 8 -> "8" [] d = 9 -> "9"

\* Length of the longest prefix of s[i..] made of digits.
RECURSIVE DigitRun(_, _)
DigitRun(s, i) ==
    IF i <= Len(s) /\ isdigit(s[i]) THEN 1 + DigitRun(s, i + 1) ELSE 0

\* Value of the digits s[i .. i+n-1] read as an integer.
RECURSIVE IntOf(_, _, _)
IntOf(s, i, n) ==
    IF n = 0 THEN 0 ELSE IntOf(s, i, n - 1) * 10 + DigitVal(s[i + n - 1])

\* Value, in millionths, of the digits s[i .. i+n-1] read as a decimal fraction
\* (digits past the sixth are below the resolution kept).
RECURSIVE FracOf(_, _, _, _)
FracOf(s, i, n, weight) ==
    IF n = 0 \/ weight = 0 THEN 0
    ELSE DigitVal(s[i]) * weight + FracOf(s, i + 1, n - 1, weight \div 10)

\* Ogre::StringConverter::parseReal on the C string at tok.data(): the longest
\* leading [-]digits[.digits] is converted, the rest ignored; with no digit at
\* all the conversion fails and the default 0 is returned.
parseReal(s) ==
    LET neg   == Len(s) >= 1 /\ s[1] = "-"
        start == IF neg THEN 2 ELSE 1
        nint  == DigitRun(s, start)
        dot   == start + nint
        nfrac == IF dot <= Len(s) /\ s[dot] = "." THEN DigitRun(s, dot + 1) ELSE 0
        mag   == IntOf(s, start, nint) * Scale + FracOf(s, dot + 1, nfrac, Scale \div 10)
    IN  IF nint + nfrac = 0 THEN 0 ELSE IF neg THEN 0 - mag ELSE mag

\* Decimal digits of n >= 0, at least `width` of them (zero padded).
RECURSIVE DecDigits(_, _)
DecDigits(n, width) ==
    IF n < 10 /\ width <= 1 THEN <<DigitChar(n)>>
    ELSE Append(DecDigits(n \div 10, width - 1), DigitChar(n % 10))

\* snprintf(buf, BUF_MAX, "%f", v)
FormatF(v) ==
    LET mag == IF v < 0 THEN 0 - v ELSE v
    IN  (IF v < 0 THEN <<"-">> ELSE <<>>)
        \o DecDigits(mag \div Scale, 1) \o <<".">> \o DecDigits(mag % Scale, 6)

\* ----------------------------------------------------------- string pool

\* strlen(string_pool.data() + off): characters before the first terminator.
RECURSIVE strlen(_, _)
strlen(pool, off) ==
    IF off >= Len(pool) \/ pool[off + 1] = NUL THEN 0 ELSE 1 + strlen(pool, off + 1)

\* The C string at string_pool.data() + off.
PoolStr(pool, off) == SubSeq(pool, off + 1, off + strlen(pool, off))

\* A token as a reader sees it: its kind and its value; the value of a STRING,
\* COMMENT or KEYWORD is the C string at its pool offset.
View(t, pool) ==
    [type |-> t.type,
     value |-> IF t.type \in {"STRING", "COMMENT", "KEYWORD"} THEN PoolStr(pool, t.data)
               ELSE t.data]

Views(toks, pool) == [i \in 1..Len(toks) |-> View(toks[i], pool)]

V(type, value) == [type |-> type, value |-> value]

LINEBREAK == V("LINEBREAK", 0)

Types(toks) == [i \in 1..Len(toks) |-> toks[i].type]

\* --------------------------------------------------- DocumentParser steps
\* A machine m is the parser together with the document it writes to:
\* [options, tokens, string_pool, tok, line_num, line_pos, partial_tok_type,
\*  title_found, console].  console is the list of diagnostics emitted.

NewParser(opt) ==
    [options |-> opt, tokens |-> <<>>, string_pool |-> <<>>, tok |-> <<>>,
     line_num |-> 0, line_pos |-> 0, partial_tok_type |-> "NONE",
     title_found |-> FALSE, console |-> <<>>]

\* a load that clears the token list and leaves the pool of the earlier load
ResetDocument_KeepsPool(m, opt) ==
    [NewParser(opt) EXCEPT !.string_pool = m.string_pool, !.console = m.console]

\* the head of LoadFromDataStream: tokens.clear(), string_pool.clear(), and a
\* parser constructed for this call; the console is the application's
ResetDocument(m, opt) ==
    [m EXCEPT !.tokens = <<>>,
              !.string_pool = <<>>,
              !.options = opt,
              !.tok = NewParser(opt).tok,
              !.line_num = NewParser(opt).line_num,
              !.line_pos = NewParser(opt).line_pos,
              !.partial_tok_type = NewParser(opt).partial_tok_type,
              !.title_found = NewParser(opt).title_found]

MovePos(m) == [m EXCEPT !.line_pos = @ + 1]

\* a flush that records the pool length after the copy
FlushText_OffsetAfterCopy(m, type) ==
    [m EXCEPT !.tokens = Append(@, Token(type, Len(m.string_pool) + Len(m.tok) + 1)),
              !.string_pool = @ \o m.tok \o <<NUL>>,
              !.tok = <<>>,
              !.partial_tok_type = "NONE"]

\* push a token whose payload is the pool length, copy tok plus a terminator
\* into the pool, clear tok, return to NONE
FlushText(m, type) ==
    [m EXCEPT !.tokens = Append(@, Token(type, Len(m.string_pool))),
              !.string_pool = @ \o m.tok \o <<NUL>>,
              !.tok = <<>>,
              !.partial_tok_type = "NONE"]

\* push LINEBREAK, line_num++, line_pos = 0
BreakLine(m) ==
    [m EXCEPT !.tokens = Append(@, Token("LINEBREAK", 0)),
              !.line_num = @ + 1,
              !.line_pos = 0]

Enter(m, c, state) ==
    [m EXCEPT !.tok = Append(@, c), !.partial_tok_type = state]

PutMessage(m, text) == [m EXCEPT !.console = Append(@, text)]

\* the trailing "if (partial_tok_type == GARBAGE) putMessage(...)" of a handler
WarnIfGarbage(m, text) ==
    IF m.partial_tok_type = "GARBAGE" THEN PutMessage(m, text) ELSE m

\* a line-start test that always succeeds
OnLineStart_Always(m) == Len(m.tokens) >= 0

OnLineStart(m) ==
    Len(m.tokens) = 0 \/ m.tokens[Len(m.tokens)].type = "LINEBREAK"

\* the switch of DocumentParser::BeginToken
BeginSwitch(m, c) ==
    CASE c = CR -> m
      [] c \in {SPC, ",", TAB} -> MovePos(m)
      [] c = LF -> BreakLine(m)
      [] c = ";" -> MovePos([m EXCEPT !.partial_tok_type = "COMMENT_SEMICOLON"])
      [] c = "/" ->
            MovePos(IF OPTION_ALLOW_SLASH_COMMENTS \in m.options
                        THEN [m EXCEPT !.partial_tok_type = "COMMENT_SLASH"]
                    ELSE IF OPTION_ALLOW_NAKED_STRINGS \in m.options /\ ~OnLineStart(m)
                        THEN Enter(m, c, "STRING_NAKED")
                    ELSE Enter(m, c, "GARBAGE"))
      [] c = QUOTE -> MovePos([m EXCEPT !.partial_tok_type = "STRING_QUOTED"])
      [] c = "." -> MovePos(Enter(m, c, "NUMBER_DOT"))
      [] c = "-" -> MovePos(Enter(m, c, "NUMBER"))
      [] c = "t" -> MovePos(Enter(m, c, "BOOL_TRUE"))
      [] c = "f" -> MovePos(Enter(m, c, "BOOL_FALSE"))
      [] OTHER ->
            MovePos(IF isdigit(c) THEN Enter(m, c, "NUMBER")
                    ELSE IF isalpha(c) /\ OnLineStart(m) THEN Enter(m, c, "KEYWORD")
                    ELSE IF OPTION_ALLOW_NAKED_STRINGS \in m.options
                        THEN Enter(m, c, "STRING_NAKED")
                    ELSE Enter(m, c, "GARBAGE"))

\* mutant: the override does not look at title_found
TitleOverride_EveryLine(m) ==
    IF /\ OPTION_FIRST_LINE_IS_TITLE \in m.options
       /\ OnLineStart(m)
       /\ m.partial_tok_type \notin {"NONE", "COMMENT_SEMICOLON", "COMMENT_SLASH"}
    THEN [m EXCEPT !.title_found = TRUE, !.partial_tok_type = "TITLE_STRING"]
    ELSE m

\* the title override of DocumentParser::BeginToken
TitleOverride(m) ==
    IF /\ OPTION_FIRST_LINE_IS_TITLE \in m.options
       /\ ~m.title_found
       /\ OnLineStart(m)
       /\ m.partial_tok_type \notin {"NONE", "COMMENT_SEMICOLON", "COMMENT_SLASH"}
    THEN [m EXCEPT !.title_found = TRUE, !.partial_tok_type = "TITLE_STRING"]
    ELSE m

BeginToken(m, c) ==
    WarnIfGarbage(TitleOverride(BeginSwitch(m, c)), "stray character")

UpdateComment(m, c) ==
    CASE c = CR -> m
      [] c = LF -> BreakLine(FlushText(m, "COMMENT"))
      [] c = "/" ->
            \* with COMMENT_SLASH, skip any number of leading '/'
            MovePos(IF m.partial_tok_type # "COMMENT_SLASH" \/ Len(m.tok) > 0
                        THEN [m EXCEPT !.tok = Append(@, c)]
                        ELSE m)
      [] OTHER -> MovePos([m EXCEPT !.tok = Append(@, c)])

\* the switch of DocumentParser::UpdateString
StringSwitch(m, c) ==
    CASE c = CR -> m
      [] c \in {SPC, ",", TAB} ->
            MovePos(IF m.partial_tok_type = "STRING_QUOTED"
                        THEN [m EXCEPT !.tok = Append(@, NUL)]
                        ELSE FlushText(m, "STRING"))
      [] c = LF ->
            BreakLine(FlushText(
                IF m.partial_tok_type = "STRING_QUOTED"
                    THEN PutMessage(m, "quoted string interrupted by newline")
                    ELSE m,
                "STRING"))
      [] c = QUOTE ->
            MovePos(IF m.partial_tok_type = "STRING_QUOTED"
                        THEN FlushText(m, "STRING")
                        ELSE Enter(m, c, "GARBAGE"))
      [] OTHER -> MovePos([m EXCEPT !.tok = Append(@, c)])

\* mutant: a '/' inside a naked string ends it and starts a comment
UpdateString_SlashStartsComment(m, c) ==
    IF c = "/" /\ m.partial_tok_type = "STRING_NAKED"
        THEN MovePos([FlushText(m, "STRING") EXCEPT !.partial_tok_type = "COMMENT_SLASH"])
        ELSE WarnIfGarbage(StringSwitch(m, c), "stray character in string")

UpdateString(m, c) ==
    WarnIfGarbage(StringSwitch(m, c), "stray character in string")

\* push NUMBER with parseReal(tok), clear tok, return to NONE
FlushNumber(m) ==
    [m EXCEPT !.tokens = Append(@, Token("NUMBER", parseReal(m.tok))),
              !.tok = <<>>,
              !.partial_tok_type = "NONE"]

\* The switch has no default: a character that is none of CR, separator,
\* newline, '-' or '.' (a digit included) changes nothing.
UpdateNumber(m, c) ==
    LET r ==
        CASE c = CR -> m
          [] c \in {SPC, ",", TAB} -> MovePos(FlushNumber(m))
          [] c = LF -> BreakLine(FlushNumber(m))
          [] c = "-" -> MovePos(Enter(m, c, "GARBAGE"))
          [] c = "." ->
                MovePos(IF m.partial_tok_type = "NUMBER"
                            THEN Enter(m, c, "NUMBER_DOT")
                            ELSE Enter(m, c, "GARBAGE"))
          [] OTHER -> m
    IN  WarnIfGarbage(r, "stray character in number")

\* a discard that keeps the text as a STRING token
Discard_FlushesString(m, text) == FlushText(PutMessage(m, text), "STRING")

\* tok.clear(), return to NONE, with the "discarding ..." diagnostic
Discard(m, text) ==
    [PutMessage(m, text) EXCEPT !.tok = <<>>, !.partial_tok_type = "NONE"]

\* the downgrade of a boolean that stopped matching
Downgrade(m) ==
    [m EXCEPT !.partial_tok_type =
        IF OPTION_ALLOW_NAKED_STRINGS \in m.options THEN "STRING_NAKED" ELSE "GARBAGE"]

\* a letter of 'true' / 'false' accepted at any position of its literal
BoolLetter_AnyPosition(m, c, state, size) ==
    MovePos([(IF m.partial_tok_type # state THEN Downgrade(m) ELSE m)
                EXCEPT !.tok = Append(@, c)])

\* one expected letter of 'true' / 'false': stay when it is the letter expected at
\* this position of this literal, downgrade otherwise; the letter is kept either way
BoolLetter(m, c, state, size) ==
    MovePos([(IF m.partial_tok_type # state \/ Len(m.tok) # size THEN Downgrade(m) ELSE m)
                EXCEPT !.tok = Append(@, c)])

EmitBool(m, value) ==
    [m EXCEPT !.tokens = Append(@, Token("BOOL", value)),
              !.tok = <<>>,
              !.partial_tok_type = "NONE"]

UpdateBool(m, c) ==
    LET r ==
        CASE c = CR -> m
          [] c \in {SPC, ",", TAB} -> MovePos(Discard(m, "discarding incomplete boolean token"))
          [] c = LF -> BreakLine(Discard(m, "discarding incomplete boolean token"))
          [] c = "r" -> BoolLetter(m, c, "BOOL_TRUE", 1)
          [] c = "u" -> BoolLetter(m, c, "BOOL_TRUE", 2)
          [] c = "a" -> BoolLetter(m, c, "BOOL_FALSE", 1)
          [] c = "l" -> BoolLetter(m, c, "BOOL_FALSE", 2)
          [] c = "s" -> BoolLetter(m, c, "BOOL_FALSE", 3)
          [] c = "e" ->
                MovePos(IF m.partial_tok_type = "BOOL_TRUE" /\ Len(m.tok) = 3
                            THEN EmitBool(m, 1)
                        ELSE IF m.partial_tok_type = "BOOL_FALSE" /\ Len(m.tok) = 4
                            THEN EmitBool(m, 0)
                        ELSE [Downgrade(m) EXCEPT !.tok = Append(@, c)])
          \* the default case does not advance line_pos
          [] OTHER -> [Downgrade(m) EXCEPT !.tok = Append(@, c)]
    IN  WarnIfGarbage(r, "stray character in boolean")

UpdateKeyword(m, c) ==
    LET r ==
        CASE c = CR -> m
          [] c \in {SPC, ",", TAB} -> MovePos(FlushText(m, "KEYWORD"))
          [] c = LF -> BreakLine(FlushText(m, "KEYWORD"))
          [] OTHER ->
                MovePos([m EXCEPT !.tok = Append(@, c),
                                  !.partial_tok_type =
                                      IF ~isalnum(c) THEN "GARBAGE" ELSE @])
    IN  WarnIfGarbage(r, "stray character in keyword")

\* a title that keeps its carriage returns
UpdateTitle_KeepsCR(m, c) ==
    CASE c = LF -> BreakLine(FlushText(m, "STRING"))
      [] OTHER -> MovePos([m EXCEPT !.tok = Append(@, c)])

UpdateTitle(m, c) ==
    CASE c = CR -> m
      [] c = LF -> BreakLine(FlushText(m, "STRING"))
      [] OTHER -> MovePos([m EXCEPT !.tok = Append(@, c)])

\* a garbage state that flushes what it gathered as a KEYWORD
UpdateGarbage_FlushesKeyword(m, c) ==
    CASE c = CR -> m
      [] c \in {SPC, ",", TAB} -> MovePos(FlushText(m, "KEYWORD"))
      [] c = LF -> BreakLine(FlushText(m, "KEYWORD"))
      [] OTHER -> MovePos([m EXCEPT !.tok = Append(@, c)])

\* '\n' shares the case of the separators: no LINEBREAK is pushed, line_num stays
UpdateGarbage(m, c) ==
    CASE c = CR -> m
      [] c \in {SPC, ",", TAB, LF} -> MovePos(Discard(m, "discarding garbage token"))
      [] OTHER -> MovePos([m EXCEPT !.tok = Append(@, c)])

\* the switch on parser.partial_tok_type in the read loop of LoadFromDataStream
Dispatch(m, c) ==
    CASE m.partial_tok_type = "NONE" -> BeginToken(m, c)
      [] m.partial_tok_type \in {"COMMENT_SEMICOLON", "COMMENT_SLASH"} -> UpdateComment(m, c)
      [] m.partial_tok_type \in {"STRING_QUOTED", "STRING_NAKED"} -> UpdateString(m, c)
      [] m.partial_tok_type \in {"NUMBER", "NUMBER_DOT"} -> UpdateNumber(m, c)
      [] m.partial_tok_type \in {"BOOL_TRUE", "BOOL_FALSE"} -> UpdateBool(m, c)
      [] m.partial_tok_type = "KEYWORD" -> UpdateKeyword(m, c)
      [] m.partial_tok_type = "TITLE_STRING" -> UpdateTitle(m, c)
      [] m.partial_tok_type = "GARBAGE" -> UpdateGarbage(m, c)

\* mutant: the trailing LINEBREAK is never added
EnsureNewline_Skipped(tokens) == tokens

\* "Ensure newline at end of file"
EnsureNewline(tokens) ==
    IF Len(tokens) = 0 \/ tokens[Len(tokens)].type # "LINEBREAK"
        THEN Append(tokens, Token("LINEBREAK", 0))
        ELSE tokens

\* the read loop over the characters s[i..]
RECURSIVE ParseFrom(_, _, _)
ParseFrom(m, s, i) ==
    IF i > Len(s) THEN m ELSE ParseFrom(Dispatch(m, s[i]), s, i + 1)

\* GenericDocument::LoadFromDataStream as a function of the stream's bytes:
\* the document [tokens, string_pool] it leaves
LoadFromDataStream(s, opt) ==
    LET m == ParseFrom(NewParser(opt), s, 1)
    IN  [tokens |-> EnsureNewline(m.tokens), string_pool |-> m.string_pool]

\* ------------------------------------------------------------ serializer

EOL_STR(platform) == IF platform = "WIN32" THEN <<CR, LF>> ELSE <<LF>>

\* what SaveToDataStream writes for one token, given the separator in force
SaveToken(t, pool, separator, eol) ==
    CASE t.type = "LINEBREAK" -> eol
      [] t.type = "COMMENT" -> <<";">> \o PoolStr(pool, t.data)
      [] t.type = "STRING" -> separator \o PoolStr(pool, t.data)
      [] t.type = "NUMBER" -> separator \o FormatF(t.data)
      [] t.type = "BOOL" ->
            separator \o (IF t.data = 1 THEN <<"t", "r", "u", "e">>
                                        ELSE <<"f", "a", "l", "s", "e">>)
      [] t.type = "KEYWORD" -> PoolStr(pool, t.data)

\* mutant: a COMMENT resets the separator as a LINEBREAK does
NextSeparator_CommentResets(t, separator) ==
    CASE t.type \in {"LINEBREAK", "COMMENT"} -> <<>>
      [] t.type \in {"STRING", "NUMBER", "BOOL"} -> <<",">>
      [] t.type = "KEYWORD" -> <<SPC>>

\* the separator SaveToDataStream leaves after one token
NextSeparator(t, separator) ==
    CASE t.type = "LINEBREAK" -> <<>>
      [] t.type = "COMMENT" -> separator
      [] t.type \in {"STRING", "NUMBER", "BOOL"} -> <<",">>
      [] t.type = "KEYWORD" -> <<SPC>>

\* the loop of SaveToDataStream from token i on
RECURSIVE SaveFrom(_, _, _, _, _)
SaveFrom(tokens, pool, i, separator, eol) ==
    IF i > Len(tokens) THEN <<>>
    ELSE SaveToken(tokens[i], pool, separator, eol)
         \o SaveFrom(tokens, pool, i + 1, NextSeparator(tokens[i], separator), eol)

\* GenericDocument::SaveToDataStream: the bytes written
SaveToDataStream(tokens, pool, eol) == SaveFrom(tokens, pool, 1, <<>>, eol)

\* ------------------------------------------------------------------ inputs

\* Characters of the enumerated inputs: one of each class the handlers tell apart.
Alphabet == {SPC, LF, CR, ";", "/", QUOTE, ".", "-", "1", "k", "t"}

\* All sequences over S of length at most n.
RECURSIVE SeqsUpTo(_, _)
SeqsUpTo(S, n) ==
    IF n = 0 THEN {<<>>}
    ELSE LET shorter == SeqsUpTo(S, n - 1)
         IN  shorter \cup {Append(s, c) : s \in {x \in shorter : Len(x) = n - 1}, c \in S}

\* key 1 2.5 "a b" true false
InKeyArgs ==
    <<"k", "e", "y", SPC, "1", SPC, "2", ".", "5", SPC, QUOTE, "a", SPC, "b", QUOTE,
    SPC, "t", "r", "u", "e", SPC, "f", "a", "l", "s", "e">>

\* key 1 2.5 "a b" true false\n
InKeyArgsLine ==
    <<"k", "e", "y", SPC, "1", SPC, "2", ".", "5", SPC, QUOTE, "a", SPC, "b", QUOTE,
    SPC, "t", "r", "u", "e", SPC, "f", "a", "l", "s", "e", LF>>

\* key 1
InKeyOne ==
    <<"k", "e", "y", SPC, "1">>

\* ; c
InShortComment ==
    <<";", SPC, "c">>

\* ; a comment
InComment ==
    <<";", SPC, "a", SPC, "c", "o", "m", "m", "e", "n", "t">>

\* ; a comment\n
InCommentLine ==
    <<";", SPC, "a", SPC, "c", "o", "m", "m", "e", "n", "t", LF>>

\* k foo bar/baz\n
InNaked ==
    <<"k", SPC, "f", "o", "o", SPC, "b", "a", "r", "/", "b", "a", "z", LF>>

\* set 3\n
InSet ==
    <<"s", "e", "t", SPC, "3", LF>>

\* k "a"\n
InKeyString ==
    <<"k", SPC, QUOTE, "a", QUOTE, LF>>

\* My Title Has Spaces\nkey 1\n
InTitle ==
    <<"M", "y", SPC, "T", "i", "t", "l", "e", SPC, "H", "a", "s", SPC, "S", "p", "a",
    "c", "e", "s", LF, "k", "e", "y", SPC, "1", LF>>

\* n 12 -3 2.5\n
InNumbers ==
    <<"n", SPC, "1", "2", SPC, "-", "3", SPC, "2", ".", "5", LF>>

\* set_x 1\n
InSetX ==
    <<"s", "e", "t", "_", "x", SPC, "1", LF>>

\* k true\r\n;c\r\n
InCrLf ==
    <<"k", SPC, "t", "r", "u", "e", CR, LF, ";", "c", CR, LF>>

\* k\n;c\n\nk 1\n
InCommentLines ==
    <<"k", LF, ";", "c", LF, LF, "k", SPC, "1", LF>>

Examples ==
    {InKeyArgs,
     InKeyArgsLine,
     InKeyOne,
     InShortComment,
     InComment,
     InCommentLine,
     InNaked,
     InSet,
     InKeyString,
     InTitle,
     InNumbers,
     InSetX,
     InCrLf,
     InCommentLines}

\* the beginnings of the two boolean literals, each followed by up to MaxLen - 1
\* characters that continue, break or end it
BoolPrefixes ==
    {<<"t">>, <<"t", "r">>, <<"t", "r", "u">>,
     <<"f">>, <<"f", "a">>, <<"f", "a", "l">>, <<"f", "a", "l", "s">>}

BoolAlphabet == {"r", "u", "e", "a", "l", "s", "t", "k", SPC, LF}

BoolInputs == {p \o s : p \in BoolPrefixes, s \in SeqsUpTo(BoolAlphabet, MaxLen - 1)}

Inputs == Examples \cup SeqsUpTo(Alphabet, MaxLen) \cup BoolInputs

\* the streams of a second load: one with a title line, one ending inside a
\* token, one with carriage returns
ReloadInputs == {InTitle, InKeyOne, InCrLf}

Platforms == {"WIN32", "OTHER"}

\* ------------------------------------------------------ documents built by hand
\* tokens and string_pool are open to the document's clients, which build
\* documents token by token; a built document keeps the pool discipline: a
\* textual token's payload is the offset of its terminated text.

BuildChoices ==
    {V("LINEBREAK", 0), V("COMMENT", <<"c">>), V("STRING", <<"a", "b">>),
     V("NUMBER", 3 * Scale), V("BOOL", 1), V("BOOL", 0), V("KEYWORD", <<"s", "e", "t">>)}

\* the document holding the tokens viewed as vs[1..n]
RECURSIVE Build(_, _)
Build(vs, n) ==
    IF n = 0 THEN [tokens |-> <<>>, string_pool |-> <<>>]
    ELSE LET d == Build(vs, n - 1)
             v == vs[n]
         IN  IF v.type \in {"STRING", "COMMENT", "KEYWORD"}
             THEN [tokens |-> Append(d.tokens, Token(v.type, Len(d.string_pool))),
                   string_pool |-> d.string_pool \o v.value \o <<NUL>>]
             ELSE [tokens |-> Append(d.tokens, Token(v.type, v.value)),
                   string_pool |-> d.string_pool]

BuiltDocuments == {Build(vs, Len(vs)) : vs \in SeqsUpTo(BuildChoices, MaxToks)}

\* --------------------------------------------------------------- the reader
\* GenericDocReader walks a document's tokens with a cursor, token_pos, counted
\* from 0.  Its accessors:

EndOfFile(toks, pos, offset) == pos + offset >= Len(toks)

GetTokType(toks, pos, offset) ==
    IF EndOfFile(toks, pos, offset) THEN "NONE" ELSE toks[pos + offset + 1].type

MoveNext(pos) == pos + 1

IsTokString(toks, pos) == GetTokType(toks, pos, 0) = "STRING"
IsTokFloat(toks, pos) == GetTokType(toks, pos, 0) = "NUMBER"
IsTokBool(toks, pos) == GetTokType(toks, pos, 0) = "BOOL"
IsTokKeyword(toks, pos) == GetTokType(toks, pos, 0) = "KEYWORD"

\* SeekNextLine's first loop
RECURSIVE SkipCurrentLine(_, _)
SkipCurrentLine(toks, pos) ==
    IF ~EndOfFile(toks, pos, 0) /\ GetTokType(toks, pos, 0) # "LINEBREAK"
    THEN SkipCurrentLine(toks, MoveNext(pos))
    ELSE pos

\* a second loop that stops at the first token that is not a LINEBREAK
RECURSIVE SkipComments_OnlyLinebreaks(_, _)
SkipComments_OnlyLinebreaks(toks, pos) ==
    IF ~EndOfFile(toks, pos, 0) /\ GetTokType(toks, pos, 0) = "LINEBREAK"
    THEN SkipComments_OnlyLinebreaks(toks, MoveNext(pos))
    ELSE pos

\* SeekNextLine's second loop
RECURSIVE SkipComments(_, _)
SkipComments(toks, pos) ==
    IF /\ ~EndOfFile(toks, pos, 0)
       /\ ~IsTokString(toks, pos)
       /\ ~IsTokFloat(toks, pos)
       /\ ~IsTokBool(toks, pos)
       /\ ~IsTokKeyword(toks, pos)
    THEN SkipComments(toks, MoveNext(pos))
    ELSE pos

\* a SeekNextLine that stops at the LINEBREAK ending the current line
SeekNextLine_StopsAtLinebreak(toks, pos) ==
    LET p == SkipCurrentLine(toks, pos)
    IN  [token_pos |-> p, ret |-> EndOfFile(toks, p, 0)]

\* where SeekNextLine leaves the cursor, and what it returns
SeekNextLine(toks, pos) ==
    LET p == SkipComments(toks, SkipCurrentLine(toks, pos))
    IN  [token_pos |-> p, ret |-> EndOfFile(toks, p, 0)]

\* a count that takes the LINEBREAK in
RECURSIVE CountFrom_ThroughLinebreak(_, _, _)
CountFrom_ThroughLinebreak(toks, pos, count) ==
    IF EndOfFile(toks, pos, count) THEN count
    ELSE IF GetTokType(toks, pos, count) = "LINEBREAK" THEN count + 1
    ELSE CountFrom_ThroughLinebreak(toks, pos, count + 1)

\* CountLineArgs's loop, entered with `count`
RECURSIVE CountFrom(_, _, _)
CountFrom(toks, pos, count) ==
    IF ~EndOfFile(toks, pos, count) /\ GetTokType(toks, pos, count) # "LINEBREAK"
    THEN CountFrom(toks, pos, count + 1)
    ELSE count

CountLineArgs(toks, pos) == CountFrom(toks, pos, 0)

\* no call made yet
NoCall == [op |-> "none", from |-> 0, ret |-> 0]

\* ------------------------------------------------------------------- state

VARIABLES
    datastream,         \* the bytes of the stream handed to LoadFromDataStream
    nread,              \* how many of them the read loop has consumed
    options,            \* the BitMask_t handed to LoadFromDataStream
    platform,           \* the build: decides EOL_STR
    tokens,             \* GenericDocument::tokens
    string_pool,        \* GenericDocument::string_pool
    tok,                \* DocumentParser::tok
    line_num,           \* DocumentParser::line_num
    line_pos,           \* DocumentParser::line_pos
    partial_tok_type,   \* DocumentParser::partial_tok_type
    title_found,        \* DocumentParser::title_found
    console,            \* the diagnostics put to the console, oldest first
    written,            \* the bytes SaveToDataStream wrote
    earlier,            \* the documents earlier loads left behind, oldest first
    token_pos,          \* GenericDocReader::token_pos
    call,               \* the reader's last call: its name, where it began, its result
    calls,              \* how many calls a loop `while (!SeekNextLine())` has made
    pc                  \* "idle", "parse", "loaded", "saved"; "built", "built_saved";
                        \* "read" while a reader walks the document

vars ==
    <<datastream, nread, options, platform, tokens, string_pool, tok, line_num, line_pos,
      partial_tok_type, title_found, console, written, earlier, token_pos, call,
      calls, pc>>

\* the parser and its document as one machine
M ==
    [options |-> options, tokens |-> tokens, string_pool |-> string_pool, tok |-> tok,
     line_num |-> line_num, line_pos |-> line_pos, partial_tok_type |-> partial_tok_type,
     title_found |-> title_found, console |-> console]

Becomes(m) ==
    /\ tokens' = m.tokens
    /\ string_pool' = m.string_pool
    /\ tok' = m.tok
    /\ line_num' = m.line_num
    /\ line_pos' = m.line_pos
    /\ partial_tok_type' = m.partial_tok_type
    /\ title_found' = m.title_found
    /\ console' = m.console

\* Either a constructed, empty document about to load a stream (the stream, the
\* options and the build are the environment's choice), or a document a client
\* has built.
Init ==
    /\ platform \in Platforms
    /\ \/ /\ datastream \in Inputs
          /\ options \in SUBSET AllOptions
          /\ tokens = <<>>
          /\ string_pool = <<>>
          /\ pc = "idle"
       \/ /\ datastream = <<>>
          /\ options = {}
          /\ \E d \in BuiltDocuments :
                /\ tokens = d.tokens
                /\ string_pool = d.string_pool
          /\ pc = "built"
    /\ nread = 0
    /\ tok = <<>>
    /\ line_num = 0
    /\ line_pos = 0
    /\ partial_tok_type = "NONE"
    /\ title_found = FALSE
    /\ console = <<>>
    /\ written = <<>>
    /\ earlier = <<>>
    /\ token_pos = 0
    /\ call = NoCall
    /\ calls = 0

\* LoadFromDataStream(s, opt) up to its read loop
Load(s, opt) ==
    /\ datastream' = s
    /\ options' = opt
    /\ Becomes(ResetDocument(M, opt))
    /\ nread' = 0
    /\ pc' = "parse"
    /\ UNCHANGED <<platform, written, token_pos, call, calls>>

\* the first load of a constructed document
LoadBegin ==
    /\ pc = "idle"
    /\ Load(datastream, options)
    /\ UNCHANGED earlier

\* a second load into the document a first load of one of the examples filled
LoadAgain ==
    /\ pc = "loaded"
    /\ earlier = <<>>
    /\ datastream \in Examples
    /\ \E s \in ReloadInputs, opt \in SUBSET AllOptions : Load(s, opt)
    /\ earlier' = <<[tokens |-> tokens, string_pool |-> string_pool]>>

\* one character of the read loop, handed to the handler of the states in `states`
Read(states, m) ==
    /\ pc = "parse"
    /\ nread < Len(datastream)
    /\ partial_tok_type \in states
    /\ Becomes(m)
    /\ nread' = nread + 1
    /\ UNCHANGED <<datastream, options, platform, written, earlier, token_pos, call,
                   calls, pc>>

NextChar == datastream[nread + 1]

ReadBeginToken == Read({"NONE"}, BeginToken(M, NextChar))

ReadUpdateComment ==
    Read({"COMMENT_SEMICOLON", "COMMENT_SLASH"}, UpdateComment(M, NextChar))

ReadUpdateString == Read({"STRING_QUOTED", "STRING_NAKED"}, UpdateString(M, NextChar))

ReadUpdateNumber == Read({"NUMBER", "NUMBER_DOT"}, UpdateNumber(M, NextChar))

ReadUpdateBool == Read({"BOOL_TRUE", "BOOL_FALSE"}, UpdateBool(M, NextChar))

ReadUpdateKeyword == Read({"KEYWORD"}, UpdateKeyword(M, NextChar))

ReadUpdateTitle == Read({"TITLE_STRING"}, UpdateTitle(M, NextChar))

ReadUpdateGarbage == Read({"GARBAGE"}, UpdateGarbage(M, NextChar))

\* LoadFromDataStream after its read loop: the stream is at eof
LoadEnd ==
    /\ pc = "parse"
    /\ nread = Len(datastream)
    /\ tokens' = EnsureNewline(tokens)
    /\ pc' = "loaded"
    /\ UNCHANGED <<datastream, nread, options, platform, string_pool, tok, line_num,
                   line_pos, partial_tok_type, title_found, console, written, earlier,
                   token_pos, call, calls>>

\* SaveToDataStream on a loaded or built document
Save ==
    /\ pc \in {"loaded", "built"}
    /\ written' = SaveToDataStream(tokens, string_pool, EOL_STR(platform))
    /\ pc' = IF pc = "loaded" THEN "saved" ELSE "built_saved"
    /\ UNCHANGED <<datastream, nread, options, platform, tokens, string_pool, tok,
                   line_num, line_pos, partial_tok_type, title_found, console, earlier,
                   token_pos, call, calls>>

\* a reader is constructed on a built document, or on the document a single
\* load of one of the examples filled
OpenReader ==
    /\ \/ pc = "built"
       \/ pc = "loaded" /\ earlier = <<>> /\ datastream \in Examples
    /\ token_pos' = 0
    /\ call' = NoCall
    /\ pc' = "read"
    /\ UNCHANGED <<datastream, nread, options, platform, tokens, string_pool, tok,
                   line_num, line_pos, partial_tok_type, title_found, console, written,
                   earlier, calls>>

\* a reader call that leaves the cursor at `pos` and returns `ret`
ReaderCall(op, pos, ret) ==
    /\ pc = "read"
    /\ token_pos' = pos
    /\ call' = [op |-> op, from |-> token_pos, ret |-> ret]
    /\ UNCHANGED <<datastream, nread, options, platform, tokens, string_pool, tok,
                   line_num, line_pos, partial_tok_type, title_found, console, written,
                   earlier, calls, pc>>

\* MoveNext; the walk is followed to one step past the end
ReadMoveNext ==
    /\ token_pos <= Len(tokens)
    /\ ReaderCall("MoveNext", MoveNext(token_pos),
                  EndOfFile(tokens, MoveNext(token_pos), 0))

ReadSeekNextLine ==
    LET r == SeekNextLine(tokens, token_pos)
    IN  ReaderCall("SeekNextLine", r.token_pos, r.ret)

ReadCountLineArgs ==
    ReaderCall("CountLineArgs", token_pos, CountLineArgs(tokens, token_pos))

\* a client starts the loop `while (!reader.SeekNextLine()) {}` where its reader is
SeekLoopBegin ==
    /\ pc = "read"
    /\ calls' = 0
    /\ pc' = "seek"
    /\ UNCHANGED <<datastream, nread, options, platform, tokens, string_pool, tok,
                   line_num, line_pos, partial_tok_type, title_found, console, written,
                   earlier, token_pos, call>>

\* one turn of that loop: the call, and the test of what it returned
SeekLoopCall ==
    LET r == SeekNextLine(tokens, token_pos)
    IN  /\ pc = "seek"
        /\ token_pos' = r.token_pos
        /\ call' = [op |-> "SeekNextLine", from |-> token_pos, ret |-> r.ret]
        /\ calls' = calls + 1
        /\ pc' = IF r.ret THEN "seek_done" ELSE "seek"
        /\ UNCHANGED <<datastream, nread, options, platform, tokens, string_pool, tok,
                       line_num, line_pos, partial_tok_type, title_found, console, written,
                       earlier>>

Next ==
    \/ LoadBegin
    \/ LoadAgain
    \/ ReadBeginToken
    \/ ReadUpdateComment
    \/ ReadUpdateString
    \/ ReadUpdateNumber
    \/ ReadUpdateBool
    \/ ReadUpdateKeyword
    \/ ReadUpdateTitle
    \/ ReadUpdateGarbage
    \/ LoadEnd
    \/ Save
    \/ OpenReader
    \/ ReadMoveNext
    \/ ReadSeekNextLine
    \/ ReadCountLineArgs
    \/ SeekLoopBegin
    \/ SeekLoopCall

Spec == Init /\ [][Next]_vars

TypeOK ==
    /\ partial_tok_type \in PartialToken
    /\ \A i \in 1..Len(tokens) : tokens[i].type \in TokenType
    /\ nread \in 0..Len(datastream)
    /\ pc \in {"idle", "parse", "loaded", "saved", "built", "built_saved", "read", "seek",
             "seek_done"}
    /\ calls \in 0..(Len(tokens) + 1)
    /\ token_pos \in 0..(Len(tokens) + 1)
    /\ Len(earlier) \in {0, 1}

\* ------------------------------------------------------- reading a document

\* the document is the result of a completed load
Loaded == pc \in {"loaded", "saved"}

\* SaveToDataStream has run
Saved == pc \in {"saved", "built_saved"}

\* ------------------------------------------------------------------ claims

\* C1: after LoadFromDataStream completes, for every input and every combination
\* of the three option flags, the token list is non-empty and its last token is
\* LINEBREAK.
C1_EndsWithLinebreak ==
    Loaded => Len(tokens) > 0 /\ tokens[Len(tokens)].type = "LINEBREAK"

\* the load ended inside a partial token, all three options on: the closing
\* LINEBREAK is the one added at end of file
C1_Witness ==
    /\ pc = "loaded"
    /\ options = AllOptions
    /\ partial_tok_type # "NONE"
    /\ Len(datastream) > 0
    /\ tokens[Len(tokens)].type = "LINEBREAK"

\* the kind of token each partial state flushes to
FlushKind(state) ==
    CASE state \in {"COMMENT_SEMICOLON", "COMMENT_SLASH"} -> "COMMENT"
      [] state \in {"STRING_QUOTED", "STRING_NAKED", "TITLE_STRING"} -> "STRING"
      [] state \in {"NUMBER", "NUMBER_DOT"} -> "NUMBER"
      [] state = "KEYWORD" -> "KEYWORD"

\* C2: when the input ends inside a partial token, that token is flushed into the
\* token list by its state's flush rule before the trailing LINEBREAK is appended:
\* `key 1` yields KEYWORD("key"), NUMBER(1), LINEBREAK and `; c` yields COMMENT,
\* LINEBREAK.
C2_PartialTokenFlushedAtEof ==
    pc = "loaded" =>
        /\ datastream = InKeyOne /\ OPTION_FIRST_LINE_IS_TITLE \notin options
            => Views(tokens, string_pool)
                 = <<V("KEYWORD", <<"k", "e", "y">>), V("NUMBER", 1 * Scale), LINEBREAK>>
        /\ datastream = InShortComment
            => Types(tokens) = <<"COMMENT", "LINEBREAK">>
        /\ partial_tok_type \in
              {"COMMENT_SEMICOLON", "COMMENT_SLASH", "STRING_QUOTED", "STRING_NAKED",
               "TITLE_STRING", "NUMBER", "NUMBER_DOT", "KEYWORD"}
            => /\ Len(tokens) >= 2
               /\ tokens[Len(tokens) - 1].type = FlushKind(partial_tok_type)

\* C3: `key 1 2.5 "a b" true false` with no option flags yields exactly
\* KEYWORD("key"), NUMBER(1.0), NUMBER(2.5), STRING("a b"), BOOL(1.0), BOOL(0.0),
\* LINEBREAK, the text of a STRING/KEYWORD being the terminated run at its offset.
C3_KeyArgsTokens ==
    pc = "loaded" /\ datastream = InKeyArgs /\ options = {}
        => Views(tokens, string_pool)
             = <<V("KEYWORD", <<"k", "e", "y">>), V("NUMBER", 1 * Scale),
                 V("NUMBER", (25 * Scale) \div 10), V("STRING", <<"a", SPC, "b">>),
                 V("BOOL", 1), V("BOOL", 0), LINEBREAK>>

\* C4: `; a comment` yields exactly COMMENT("a comment"), LINEBREAK: the marker is
\* not part of the stored text and the stored text equals "a comment".
C4_CommentTokens ==
    pc = "loaded" /\ datastream \in {InComment, InCommentLine}
        => Views(tokens, string_pool)
             = <<V("COMMENT", <<"a", SPC, "c", "o", "m", "m", "e", "n", "t">>), LINEBREAK>>

\* C5: for a document D produced by the tokenizer, re-tokenizing its serialization
\* with the same options gives a token list equal to D in kinds and values, and
\* serialize(tokenize(serialize(D))) equals serialize(D) byte for byte.
C5_SaveLoadStable ==
    pc = "saved" =>
        LET again == LoadFromDataStream(written, options)
        IN  /\ Views(again.tokens, again.string_pool) = Views(tokens, string_pool)
            /\ SaveToDataStream(again.tokens, again.string_pool, EOL_STR(platform)) = written

\* ----------------------------------------------------- lines of the input

Separators == {SPC, ",", TAB}

\* the lines of s that a newline ends, without the newline
RECURSIVE LinesFrom(_, _, _)
LinesFrom(s, i, line) ==
    IF i > Len(s) THEN <<>>
    ELSE IF s[i] = LF THEN <<line>> \o LinesFrom(s, i + 1, <<>>)
    ELSE LinesFrom(s, i + 1, Append(line, s[i]))

TerminatedLines(s) == LinesFrom(s, 1, <<>>)

RECURSIVE LStrip(_)
LStrip(s) == IF s # <<>> /\ Head(s) \in Separators THEN LStrip(Tail(s)) ELSE s

\* a line from its first character that is no separator, carriage returns dropped
Content(line) == LStrip(SelectSeq(line, LAMBDA c : c # CR))

RECURSIVE FirstWord(_)
FirstWord(s) ==
    IF s = <<>> \/ Head(s) \in Separators THEN <<>> ELSE <<Head(s)>> \o FirstWord(Tail(s))

IsBlank(line) == Content(line) = <<>>

IsCommentLine(line, opt) ==
    /\ ~IsBlank(line)
    /\ \/ Head(Content(line)) = ";"
       \/ Head(Content(line)) = "/" /\ OPTION_ALLOW_SLASH_COMMENTS \in opt

Min(S) == CHOOSE x \in S : \A y \in S : x <= y

\* index of the first token after the n-th LINEBREAK of toks[from..] (n = 0: from)
RECURSIVE AfterLinebreaks(_, _, _)
AfterLinebreaks(toks, n, from) ==
    IF n = 0 \/ from > Len(toks) THEN from
    ELSE AfterLinebreaks(toks, IF toks[from].type = "LINEBREAK" THEN n - 1 ELSE n, from + 1)

\* C6: with the title option on, the first line that is neither blank nor a
\* comment is emitted as exactly one STRING token whose text is the whole line,
\* followed by LINEBREAK, whatever the line's first character is.
C6_TitleIsWholeLine ==
    pc = "loaded" /\ OPTION_FIRST_LINE_IS_TITLE \in options =>
        LET lines   == TerminatedLines(datastream)
            content == {i \in 1..Len(lines) :
                            ~IsBlank(lines[i]) /\ ~IsCommentLine(lines[i], options)}
            payload == {k \in 1..Len(tokens) : tokens[k].type \notin {"COMMENT", "LINEBREAK"}}
        IN  content # {} =>
                /\ payload # {}
                /\ tokens[Min(payload)].type = "STRING"
                /\ PoolStr(string_pool, tokens[Min(payload)].data)
                      = Content(lines[Min(content)])
                /\ tokens[Min(payload) + 1].type = "LINEBREAK"

\* C7: during one load TITLE_STRING is entered at most once: it is entered only
\* with the title flag clear, entering it sets the flag, the flag is never
\* cleared, and with the flag set a token begun at the start of a line gets the
\* state the begin-token switch chooses.
C7_TitleOnce ==
    [][pc = "parse" /\ pc' = "parse" =>
        /\ (partial_tok_type # "TITLE_STRING" /\ partial_tok_type' = "TITLE_STRING")
              => (~title_found /\ title_found')
        /\ title_found => title_found'
        /\ (title_found /\ partial_tok_type = "NONE" /\ OnLineStart(M) /\ nread' = nread + 1)
              => /\ partial_tok_type' # "TITLE_STRING"
                 /\ partial_tok_type' = BeginSwitch(M, NextChar).partial_tok_type]_vars

\* a second line begins a token at its start, the title option on and the title
\* already taken: it is a KEYWORD
C7_Witness ==
    /\ pc = "parse"
    /\ OPTION_FIRST_LINE_IS_TITLE \in options
    /\ title_found
    /\ Len(tokens) >= 2
    /\ tokens[1].type = "STRING"
    /\ tokens[Len(tokens)].type = "LINEBREAK"
    /\ partial_tok_type = "KEYWORD"

\* C8: with the title option off, every line whose first character that is no
\* separator is a letter and whose first word is alphanumeric produces a KEYWORD
\* token holding that word as the first token of the line.
C8_LetterLineStartsWithKeyword ==
    pc = "loaded" /\ OPTION_FIRST_LINE_IS_TITLE \notin options =>
        LET lines == TerminatedLines(datastream)
        IN  \A i \in 1..Len(lines) :
                LET word == FirstWord(Content(lines[i]))
                    k    == AfterLinebreaks(tokens, i - 1, 1)
                IN  (word # <<>> /\ isalpha(word[1]) /\ \A j \in 1..Len(word) : isalnum(word[j]))
                        => /\ k <= Len(tokens)
                           /\ tokens[k].type = "KEYWORD"
                           /\ PoolStr(string_pool, tokens[k].data) = word

\* C9: with naked strings enabled, `foo bar/baz` arriving when it is not the
\* first token on its line yields STRING("foo") then STRING("bar/baz"): a separator
\* ends a naked string (its text becomes a STRING token), and a '/' arriving inside
\* a naked string is accumulated, no comment begins.
C9_NakedStrings ==
    /\ [](pc = "loaded" /\ datastream = InNaked /\ OPTION_ALLOW_NAKED_STRINGS \in options
            /\ OPTION_FIRST_LINE_IS_TITLE \notin options
          => Views(tokens, string_pool)
               = <<V("KEYWORD", <<"k">>), V("STRING", <<"f", "o", "o">>),
                   V("STRING", <<"b", "a", "r", "/", "b", "a", "z">>), LINEBREAK>>)
    /\ [][pc = "parse" /\ partial_tok_type = "STRING_NAKED" /\ nread' = nread + 1 =>
            /\ NextChar = "/"
                  => /\ tok' = Append(tok, "/")
                     /\ partial_tok_type' = "STRING_NAKED"
                     /\ tokens' = tokens
            /\ NextChar \in Separators
                  => /\ Views(tokens', string_pool')
                          = Append(Views(tokens, string_pool), V("STRING", tok))
                     /\ partial_tok_type' = "NONE"
                     /\ tok' = <<>>]_vars

\* `k foo bar/baz` was loaded with naked strings and slash comments enabled
C9_Witness ==
    /\ pc = "loaded"
    /\ datastream = InNaked
    /\ options = {OPTION_ALLOW_NAKED_STRINGS, OPTION_ALLOW_SLASH_COMMENTS}
    /\ Len(tokens) = 4
    /\ PoolStr(string_pool, tokens[3].data) = <<"b", "a", "r", "/", "b", "a", "z">>

\* the separator in force when token i is written, read off the tokens before it:
\* none at the start and after a LINEBREAK, a space after a KEYWORD, a comma after
\* a STRING, NUMBER or BOOL, and whatever was in force before a COMMENT
RECURSIVE SeparatorAt(_, _)
SeparatorAt(toks, i) ==
    IF i = 1 THEN <<>>
    ELSE CASE toks[i - 1].type = "LINEBREAK" -> <<>>
           [] toks[i - 1].type = "KEYWORD" -> <<SPC>>
           [] toks[i - 1].type \in {"STRING", "NUMBER", "BOOL"} -> <<",">>
           [] toks[i - 1].type = "COMMENT" -> SeparatorAt(toks, i - 1)

\* the output the claim gives for tokens 1..n: one piece per token, in order
RECURSIVE ExpectedOutput(_, _, _, _)
ExpectedOutput(toks, pool, n, eol) ==
    IF n = 0 THEN <<>>
    ELSE LET v == View(toks[n], pool)
             sep == SeparatorAt(toks, n)
         IN  ExpectedOutput(toks, pool, n - 1, eol) \o
             CASE v.type = "LINEBREAK" -> eol
               [] v.type = "COMMENT" -> <<";">> \o v.value
               [] v.type = "KEYWORD" -> v.value
               [] v.type = "STRING" -> sep \o v.value
               [] v.type = "NUMBER" -> sep \o FormatF(v.value)
               [] v.type = "BOOL" -> sep \o (IF v.value = 1 THEN <<"t", "r", "u", "e">>
                                                            ELSE <<"f", "a", "l", "s", "e">>)

\* C10: SaveToDataStream writes one output per token in list order with a
\* separator that is empty at the start and after every LINEBREAK, a space after
\* a KEYWORD and a comma after a STRING, NUMBER or BOOL; STRING/NUMBER/BOOL are
\* preceded by the separator, KEYWORD by none, COMMENT is `;` plus its text and
\* leaves the separator alone.  KEYWORD("set"), NUMBER(3.0), LINEBREAK is written
\* as `set 3.000000` plus the line terminator.
C10_SaveFormat ==
    Saved =>
        /\ written = ExpectedOutput(tokens, string_pool, Len(tokens), EOL_STR(platform))
        /\ Views(tokens, string_pool)
             = <<V("KEYWORD", <<"s", "e", "t">>), V("NUMBER", 3 * Scale), LINEBREAK>>
           => written = <<"s", "e", "t", SPC, "3", ".", "0", "0", "0", "0", "0", "0">>
                          \o (IF platform = "WIN32" THEN <<CR, LF>> ELSE <<LF>>)

\* a saved document with a COMMENT between a KEYWORD and a NUMBER: the space set
\* by the keyword is still the separator written before the number
C10_Witness ==
    /\ pc = "built_saved"
    /\ Types(tokens) = <<"KEYWORD", "COMMENT", "NUMBER">>
    /\ written = <<"s", "e", "t", ";", "c", SPC, "3", ".", "0", "0", "0", "0", "0", "0">>

\* ------------------------------------------------------------ claims, reader

\* the positions (from 0) at or after `pos` that hold a token of a type in `types`
PositionsOf(toks, pos, types) ==
    {i \in pos..(Len(toks) - 1) : toks[i + 1].type \in types}

\* the first STRING/NUMBER/BOOL/KEYWORD position after the first LINEBREAK at or
\* after `pos`; the empty set when there is none
SeekTarget(toks, pos) ==
    LET breaks == PositionsOf(toks, pos, {"LINEBREAK"})
        content ==
            IF breaks = {} THEN {}
            ELSE PositionsOf(toks, Min(breaks) + 1, {"STRING", "NUMBER", "BOOL", "KEYWORD"})
    IN  IF content = {} THEN {} ELSE {Min(content)}

\* C11: for any token list and any cursor position, after SeekNextLine the
\* cursor is at the first STRING/NUMBER/BOOL/KEYWORD token located after the
\* first LINEBREAK at or after the original position, or at end-of-stream when
\* there is none; the return value is true exactly when the cursor is at
\* end-of-stream.
C11_SeekNextLine ==
    (pc = "read" /\ call.op = "SeekNextLine") =>
        LET target == SeekTarget(tokens, call.from)
        IN  /\ IF target = {} THEN token_pos >= Len(tokens) ELSE token_pos \in target
            /\ call.ret = (token_pos >= Len(tokens))

\* from the first keyword line, one call passes a comment line and an empty line
\* and stops on the keyword of the fourth line
C11_Witness ==
    /\ pc = "read"
    /\ datastream = InCommentLines
    /\ Types(tokens) = <<"KEYWORD", "LINEBREAK", "COMMENT", "LINEBREAK", "LINEBREAK",
                         "KEYWORD", "NUMBER", "LINEBREAK">>
    /\ call.op = "SeekNextLine"
    /\ call.from = 0
    /\ call.ret = FALSE
    /\ token_pos = 5

\* the number of tokens from `pos` up to, not including, the next LINEBREAK or
\* the end of the list
TokensToLineEnd(toks, pos) ==
    LET breaks == PositionsOf(toks, pos, {"LINEBREAK"})
        end == IF breaks = {} THEN Len(toks) ELSE Min(breaks)
    IN  IF end > pos THEN end - pos ELSE 0

\* C12: CountLineArgs returns the number of tokens from the cursor up to, not
\* including, the next LINEBREAK or end-of-stream, leaves the cursor position
\* and the document unchanged, and returns 0 when the cursor is on a LINEBREAK
\* or at end-of-stream.
C12_CountLineArgs ==
    [][(pc = "read" /\ call'.op = "CountLineArgs") =>
          /\ call'.ret = TokensToLineEnd(tokens, token_pos)
          /\ token_pos' = token_pos
          /\ tokens' = tokens
          /\ string_pool' = string_pool
          /\ (token_pos >= Len(tokens) \/ tokens[token_pos + 1].type = "LINEBREAK")
                => call'.ret = 0]_vars

\* on the keyword of `k 1`: two tokens before the LINEBREAK, cursor still there
C12_Witness ==
    /\ pc = "read"
    /\ datastream = InCommentLines
    /\ token_pos = 5
    /\ call.op = "CountLineArgs"
    /\ call.from = 5
    /\ call.ret = 2

\* ------------------------------------------------------------ claims, reload

\* C13: LoadFromDataStream on a document that already holds tokens and pool
\* bytes from an earlier load produces exactly the token list and string pool
\* that loading the same input with the same options into a fresh document
\* produces; the parser state (partial token, buffer, title flag, position)
\* starts fresh.
C13_ReloadIsFreshLoad ==
    earlier # <<>> =>
        /\ (pc = "parse" /\ nread = 0) =>
              /\ tokens = <<>>
              /\ string_pool = <<>>
              /\ tok = <<>>
              /\ partial_tok_type = "NONE"
              /\ title_found = FALSE
              /\ line_num = 0
              /\ line_pos = 0
        /\ pc = "loaded" =>
              /\ tokens = LoadFromDataStream(datastream, options).tokens
              /\ string_pool = LoadFromDataStream(datastream, options).string_pool

\* a title file loaded, with the title option, over the document of
\* `k foo bar/baz`, whose pool held three texts
C13_Witness ==
    /\ pc = "loaded"
    /\ earlier # <<>>
    /\ Len(earlier[1].tokens) > 3
    /\ Len(earlier[1].string_pool) > 3
    /\ datastream = InTitle
    /\ OPTION_FIRST_LINE_IS_TITLE \in options
    /\ Types(tokens) = <<"STRING", "LINEBREAK", "KEYWORD", "NUMBER", "LINEBREAK">>

\* --------------------------------------------------------- claims, tokenizer

\* the read loop hands the next character to a handler in this step
ReadsChar == pc = "parse" /\ nread' = nread + 1

\* toks continues `before` with LINEBREAK tokens only
OnlyLinebreaksAdded(before, toks) ==
    /\ Len(toks) >= Len(before)
    /\ SubSeq(toks, 1, Len(before)) = before
    /\ \A i \in (Len(before) + 1)..Len(toks) : toks[i].type = "LINEBREAK"

\* C14 as stated: a keyword token that contains a non-alphanumeric character is
\* still emitted: of `set_x 1` the tokens are KEYWORD("set_x"), NUMBER(1),
\* LINEBREAK.
C14_MalformedKeywordEmitted ==
    (pc = "loaded" /\ datastream = InSetX /\ OPTION_FIRST_LINE_IS_TITLE \notin options) =>
        Views(tokens, string_pool)
            = <<V("KEYWORD", <<"s", "e", "t", "_", "x">>), V("NUMBER", 1 * Scale), LINEBREAK>>

\* C14 amended: a keyword token that contains a non-alphanumeric character is
\* diagnosed and dropped.  The offending character is buffered and turns the
\* state to GARBAGE with a diagnostic; the separator or newline that follows
\* clears the buffer and returns to NONE without appending the text to the pool
\* or any token other than a LINEBREAK; no KEYWORD token of a loaded document
\* ever holds a non-alphanumeric character.
C14_MalformedKeywordDiscarded ==
    /\ [](pc \in {"parse", "loaded", "saved"} =>
            \A i \in 1..Len(tokens) :
                tokens[i].type = "KEYWORD" =>
                    \A j \in 1..Len(View(tokens[i], string_pool).value) :
                        isalnum(View(tokens[i], string_pool).value[j]))
    /\ [][ReadsChar =>
            /\ ( /\ partial_tok_type = "KEYWORD"
                 /\ NextChar \notin Separators \cup {CR, LF}
                 /\ ~isalnum(NextChar) ) =>
                    /\ partial_tok_type' = "GARBAGE"
                    /\ tok' = Append(tok, NextChar)
                    /\ tokens' = tokens
                    /\ string_pool' = string_pool
                    /\ Len(console') = Len(console) + 1
            /\ (partial_tok_type = "GARBAGE" /\ NextChar \in Separators \cup {LF}) =>
                    /\ partial_tok_type' = "NONE"
                    /\ tok' = <<>>
                    /\ string_pool' = string_pool
                    /\ OnlyLinebreaksAdded(tokens, tokens')
                    /\ Len(console') = Len(console) + 1]_vars

\* `set_x 1` loaded: the malformed keyword left diagnostics and no token
C14_Witness ==
    /\ pc = "loaded"
    /\ earlier = <<>>
    /\ datastream = InSetX
    /\ OPTION_FIRST_LINE_IS_TITLE \notin options
    /\ Views(tokens, string_pool) = <<V("NUMBER", 1 * Scale), LINEBREAK>>
    /\ Len(console) = 2

\* how many LINEBREAK tokens toks holds
LinebreakCount(toks) == Cardinality({i \in 1..Len(toks) : toks[i].type = "LINEBREAK"})

\* how many newline characters s holds
NewlineCount(s) == Cardinality({i \in 1..Len(s) : s[i] = LF})

\* C15: a newline character appends exactly one LINEBREAK token in whichever
\* state it arrives, GARBAGE included, and the line counter advances; hence the
\* number of LINEBREAK tokens of the loaded document equals the number of
\* newline characters in the input, plus one when the input is empty or does
\* not end in a newline.
C15_OneLinebreakPerNewline ==
    /\ [][(ReadsChar /\ NextChar = LF) =>
            /\ LinebreakCount(tokens') = LinebreakCount(tokens) + 1
            /\ tokens'[Len(tokens')].type = "LINEBREAK"
            /\ line_num' = line_num + 1]_vars
    /\ [](pc = "loaded" =>
            LinebreakCount(tokens)
                = NewlineCount(datastream)
                  + (IF datastream = <<>> \/ datastream[Len(datastream)] # LF THEN 1 ELSE 0))

\* s without its carriage returns
RECURSIVE StripCR(_)
StripCR(s) ==
    IF s = <<>> THEN <<>>
    ELSE IF Head(s) = CR THEN StripCR(Tail(s))
    ELSE <<Head(s)>> \o StripCR(Tail(s))

\* the index of the last `"` among the characters read so far
LastQuote == CHOOSE j \in 1..nread : datastream[j] = QUOTE /\ \A k \in (j + 1)..nread : datastream[k] # QUOTE

\* C16: inside a quoted string every character up to the closing `"` is
\* accumulated verbatim, spaces, commas and tabs included: when the closing
\* quote arrives a STRING token is appended whose text, read from its pool
\* offset to the first terminator, equals the characters between the two quotes
\* (carriage returns apart).
C16_QuotedStringVerbatim ==
    [][(ReadsChar /\ partial_tok_type = "STRING_QUOTED" /\ NextChar = QUOTE) =>
          /\ Len(tokens') = Len(tokens) + 1
          /\ View(tokens'[Len(tokens')], string_pool')
                = V("STRING", StripCR(SubSeq(datastream, LastQuote + 1, nread)))]_vars

\* C17: in the NUMBER and NUMBER_WITH_DOT states every digit is appended to the
\* accumulation buffer, so the NUMBER payload is the decimal value of the token
\* as written: of `n 12 -3 2.5` the numbers are 12, -3 and 2.5.
C17_NumberAccumulatesDigits ==
    /\ [][(ReadsChar /\ partial_tok_type \in {"NUMBER", "NUMBER_DOT"} /\ isdigit(NextChar)) =>
            /\ tok' = Append(tok, NextChar)
            /\ partial_tok_type' = partial_tok_type
            /\ tokens' = tokens]_vars
    /\ []((pc = "loaded" /\ datastream = InNumbers /\ OPTION_FIRST_LINE_IS_TITLE \notin options) =>
            Views(tokens, string_pool)
                = <<V("KEYWORD", <<"n">>), V("NUMBER", 12 * Scale), V("NUMBER", (-3) * Scale),
                    V("NUMBER", 2 * Scale + Scale \div 2), LINEBREAK>>)

\* C18: in BOOL_TRUE or BOOL_FALSE, a separator or newline arriving before the
\* literal is complete discards the partial token: no token is appended for it,
\* with or without naked strings, nothing reaches the pool, the buffer is
\* cleared with a diagnostic and the state returns to NONE; a newline still
\* appends LINEBREAK.
C18_IncompleteBoolDiscarded ==
    [][( /\ ReadsChar
         /\ partial_tok_type \in {"BOOL_TRUE", "BOOL_FALSE"}
         /\ NextChar \in Separators \cup {LF} ) =>
            /\ tok' = <<>>
            /\ partial_tok_type' = "NONE"
            /\ string_pool' = string_pool
            /\ tokens' = IF NextChar = LF THEN Append(tokens, Token("LINEBREAK", 0)) ELSE tokens
            /\ Len(console') = Len(console) + 1]_vars

\* `fa` then a newline, naked strings allowed: the newline's LINEBREAK is the only
\* token and the pool is empty
C18_Witness ==
    /\ pc = "parse"
    /\ datastream = <<"f", "a", LF>>
    /\ nread = 3
    /\ options = {OPTION_ALLOW_NAKED_STRINGS}
    /\ Types(tokens) = <<"LINEBREAK">>
    /\ string_pool = <<>>
    /\ tok = <<>>
    /\ partial_tok_type = "NONE"
    /\ Len(console) = 1

BoolLiteral(state) ==
    IF state = "BOOL_TRUE" THEN <<"t", "r", "u", "e">> ELSE <<"f", "a", "l", "s", "e">>

BoolCount(toks) == Cardinality({i \in 1..Len(toks) : toks[i].type = "BOOL"})

\* C19: a BOOL token is appended only when the characters received since
\* entering the boolean state spell exactly `true` (payload 1) or `false`
\* (payload 0), at the arrival of the final `e`; any other character that is not
\* a separator, a newline or a carriage return moves the state to STRING_NAKED
\* when naked strings are enabled and to GARBAGE otherwise, the buffer keeping
\* the matched prefix followed by the diverging character.
C19_BoolOnlyWhenSpelled ==
    /\ []((pc = "parse" /\ partial_tok_type \in {"BOOL_TRUE", "BOOL_FALSE"}) =>
            /\ tok # <<>>
            /\ Len(tok) < Len(BoolLiteral(partial_tok_type))
            /\ tok = SubSeq(BoolLiteral(partial_tok_type), 1, Len(tok)))
    /\ [][ReadsChar =>
            /\ BoolCount(tokens') # BoolCount(tokens) =>
                  /\ partial_tok_type \in {"BOOL_TRUE", "BOOL_FALSE"}
                  /\ NextChar = "e"
                  /\ Append(tok, NextChar) = BoolLiteral(partial_tok_type)
                  /\ tokens' = Append(tokens,
                                      Token("BOOL", IF partial_tok_type = "BOOL_TRUE" THEN 1 ELSE 0))
            /\ ( /\ partial_tok_type \in {"BOOL_TRUE", "BOOL_FALSE"}
                 /\ NextChar \notin Separators \cup {LF, CR} ) =>
                  IF Append(tok, NextChar) = BoolLiteral(partial_tok_type)
                  THEN /\ BoolCount(tokens') = BoolCount(tokens) + 1
                       /\ tok' = <<>>
                       /\ partial_tok_type' = "NONE"
                  ELSE /\ tokens' = tokens
                       /\ tok' = Append(tok, NextChar)
                       /\ partial_tok_type' =
                            IF NextChar = BoolLiteral(partial_tok_type)[Len(tok) + 1]
                                THEN partial_tok_type
                            ELSE IF OPTION_ALLOW_NAKED_STRINGS \in options
                                THEN "STRING_NAKED"
                            ELSE "GARBAGE"]_vars

\* `fals` followed by `s`, naked strings allowed: the boolean became the naked
\* string `falss`
C19_Witness ==
    /\ pc = "parse"
    /\ datastream = <<"f", "a", "l", "s", "s">>
    /\ nread = 5
    /\ options = {OPTION_ALLOW_NAKED_STRINGS}
    /\ partial_tok_type = "STRING_NAKED"
    /\ tok = <<"f", "a", "l", "s", "s">>
    /\ tokens = <<>>

\* C20: carriage returns are ignored in every state of the machine: for every
\* input and option set, tokenizing the input gives the same token list and
\* string pool as tokenizing the input with all carriage returns removed.
C20_CarriageReturnsIgnored ==
    pc = "loaded" =>
        /\ tokens = LoadFromDataStream(StripCR(datastream), options).tokens
        /\ string_pool = LoadFromDataStream(StripCR(datastream), options).string_pool

\* `k true\r\n;c\r\n` loaded with the first line as title: the title and the
\* comment are stored without the carriage returns
C20_Witness ==
    /\ pc = "loaded"
    /\ datastream = InCrLf
    /\ options = {OPTION_FIRST_LINE_IS_TITLE}
    /\ Views(tokens, string_pool)
         = <<V("STRING", <<"k", SPC, "t", "r", "u", "e">>), LINEBREAK,
             V("COMMENT", <<"c">>), LINEBREAK>>

\* ------------------------------------------------------ claims, invariants

TextTypes == {"STRING", "COMMENT", "KEYWORD"}

\* p is a beginning of s
IsPrefix(p, s) == Len(p) <= Len(s) /\ SubSeq(s, 1, Len(p)) = p

\* C21: in every state reached during a load, each STRING, COMMENT and KEYWORD
\* token's payload is an offset inside the string pool from which a terminator
\* is reachable; the offset equals the pool length at the moment the token was
\* appended; each step only appends to the token list and to the pool.
C21_PoolOffsetsValid ==
    /\ [](pc \in {"parse", "loaded"} =>
            \A i \in 1..Len(tokens) :
                tokens[i].type \in TextTypes =>
                    /\ tokens[i].data \in 0..(Len(string_pool) - 1)
                    /\ \E k \in (tokens[i].data + 1)..Len(string_pool) : string_pool[k] = NUL)
    /\ [][(pc = "parse" /\ pc' \in {"parse", "loaded"}) =>
            /\ IsPrefix(tokens, tokens')
            /\ IsPrefix(string_pool, string_pool')
            /\ \A i \in (Len(tokens) + 1)..Len(tokens') :
                    tokens'[i].type \in TextTypes =>
                        /\ tokens'[i].data = Len(string_pool)
                        /\ Len(string_pool') > Len(string_pool)
                        /\ string_pool'[Len(string_pool')] = NUL]_vars

\* `k foo bar/baz` with naked strings, before its newline is read: two texts in
\* the pool at offsets 0 and 2, the third still in the buffer
C21_Witness ==
    /\ pc = "parse"
    /\ datastream = InNaked
    /\ earlier = <<>>
    /\ options = {OPTION_ALLOW_NAKED_STRINGS}
    /\ tokens = <<Token("KEYWORD", 0), Token("STRING", 2)>>
    /\ string_pool = <<"k", NUL, "f", "o", "o", NUL>>
    /\ partial_tok_type = "STRING_NAKED"

\* C22: in every token list the tokenizer produces, for any input and options,
\* each KEYWORD token is the first token of its line: at index 0 or immediately
\* after a LINEBREAK; so a line holds at most one KEYWORD.
C22_KeywordStartsLine ==
    pc \in {"parse", "loaded", "saved"} =>
        \A i \in 1..Len(tokens) :
            tokens[i].type = "KEYWORD" => (i = 1 \/ tokens[i - 1].type = "LINEBREAK")

\* two keyword lines with a comment line and an empty line between them
C22_Witness ==
    /\ pc = "loaded"
    /\ datastream = InCommentLines
    /\ OPTION_FIRST_LINE_IS_TITLE \notin options
    /\ Types(tokens) = <<"KEYWORD", "LINEBREAK", "COMMENT", "LINEBREAK", "LINEBREAK",
                         "KEYWORD", "NUMBER", "LINEBREAK">>

\* ------------------------------------------------------ claims, termination

\* the last call was SeekNextLine and moved the cursor forward, by at least one
\* token when it began before the end of the list
SeekMovedForward ==
    (pc \in {"read", "seek", "seek_done"} /\ call.op = "SeekNextLine") =>
        /\ token_pos >= call.from
        /\ call.from < Len(tokens) => token_pos > call.from

\* C23 as stated: SeekNextLine never moves the cursor backward and leaves it at
\* a strictly greater index whenever it was not at end-of-stream before the
\* call; a loop that calls SeekNextLine until it returns true makes at most as
\* many calls as there are tokens.
C23_SeekLoopWithinTokenCount ==
    /\ SeekMovedForward
    /\ pc \in {"seek", "seek_done"} => calls <= Len(tokens)

\* C23 amended: SeekNextLine never moves the cursor backward and leaves it at a
\* strictly greater index whenever it was not at end-of-stream before the call;
\* a loop that calls SeekNextLine until it returns true always can make its next
\* call, counts one more call each turn, ends exactly when the call returns true,
\* and makes at most as many calls as there are tokens, or one call when the
\* token list is empty.
C23_SeekLoopTerminates ==
    /\ [](SeekMovedForward)
    /\ [](pc = "seek" => calls < (IF tokens = <<>> THEN 1 ELSE Len(tokens)))
    /\ [](pc = "seek_done" =>
            /\ calls <= (IF tokens = <<>> THEN 1 ELSE Len(tokens))
            /\ call.ret = TRUE
            /\ token_pos >= Len(tokens))
    /\ [](pc = "seek" => ENABLED SeekLoopCall)
    /\ [][pc = "seek" => (calls' = calls + 1 /\ pc' \in {"seek", "seek_done"})]_vars

\* the loop over the tokens of `k`, comment line, empty line, `k 1` ended with
\* its second call
C23_Witness ==
    /\ pc = "seek_done"
    /\ datastream = InCommentLines
    /\ Len(tokens) = 8
    /\ calls = 2
    /\ call.from = 5
    /\ token_pos = 8

====
